---- MODULE Spec2Model ----
(***************************************************************************)
(* Model of homework.py: a polling bot that asks a homework-review API for *)
(* the latest submission status and relays status changes to a chat.       *)
(*                                                                         *)
(* Texts are sequences of tokens; an f-string is the concatenation of its  *)
(* literal parts and the formatted values.  A Python dict is a function    *)
(* whose DOMAIN is the set of its keys.  A decoded JSON value other than a *)
(* homework item is a record tagged with its Python type.  A call either   *)
(* returns (Return) or raises (Raise) an exception of some class.          *)
(***************************************************************************)
EXTENDS Integers, Sequences, FiniteSets, TLC

VARIABLES
    tokens,           \* the three module-level values read from the environment
    pc,               \* position of main: "init", "aborted", "poll", "notify", "sleep"
    previous_status,  \* main's previous_status
    current_status,   \* main's current_status
    computed,         \* history: current_status as the poll phase of the cycle left it
    pollError,        \* history: class of the exception the poll phase caught, or "none"
    lastCode,         \* history: HTTP status code of the cycle's response (0: no response)
    lastSend,         \* history: this cycle's send: "none", "skip", "ok", "fail"
    prevSend,         \* history: lastSend of the cycle before
    sameAsPrev,       \* history: the poll phase computed the same text as the cycle before
    lastDelivered,    \* history: text of the latest delivered notification
    sinceDiff,        \* history: a different text was attempted since lastDelivered
    redelivery,       \* history: how the latest delivery relates to the one before
    stableSince,      \* history: every poll since the latest delivery computed its text
    fnInput,          \* input handed to a function under test
    fnOutput          \* what the function under test did with fnInput

vars == <<tokens, pc, previous_status, current_status, computed, pollError,
          lastCode, lastSend, prevSend, sameAsPrev, lastDelivered, sinceDiff,
          redelivery, stableSince, fnInput, fnOutput>>

fnVars == <<fnInput, fnOutput>>

-----------------------------------------------------------------------------
(* Bounds of the model.                                                    *)

MaxLen == 3          \* longest homeworks list handed to the functions under test
MaxLoopLen == 2      \* longest homeworks list the polled API returns in the loop

-----------------------------------------------------------------------------
(* Values.                                                                 *)

Return(v) == [ok |-> TRUE, value |-> v]
Raise(k, t) == [ok |-> FALSE, kind |-> k, text |-> t]

Restrict(f, K) == [k \in K |-> f[k]]

RECURSIVE SeqsUpTo(_, _)
SeqsUpTo(S, n) ==
    IF n = 0 THEN {<<>>}
    ELSE LET shorter == SeqsUpTo(S, n - 1)
         IN  shorter \cup {Append(s, x) : s \in {t \in shorter : Len(t) = n - 1}, x \in S}

\* str.__lt__: code point by code point, a proper prefix is smaller.
RECURSIVE StrLess(_, _)
StrLess(a, b) ==
    IF b = <<>> THEN FALSE
    ELSE IF a = <<>> THEN TRUE
    ELSE IF Head(a) # Head(b) THEN Head(a) < Head(b)
    ELSE StrLess(Tail(a), Tail(b))

\* os.getenv: the value of a set variable, None for an unset one.
EnvValues ==
    { [present |-> FALSE, value |-> ""],
      [present |-> TRUE, value |-> ""],
      [present |-> TRUE, value |-> "secret"] }

\* bool(v) of an os.getenv result: None and "" are falsy.
Truthy(v) == v.present /\ v.value # ""

TokenNames == {"TELEGRAM_TOKEN", "PRACTICUM_TOKEN", "TELEGRAM_CHAT_ID"}

HOMEWORK_VERDICTS ==
    [reviewing |-> "Reviewer took the work.",
     rejected  |-> "Reviewed: the reviewer has remarks.",
     approved  |-> "Reviewed: the reviewer liked it all."]

HTTP_OK == 200

\* The members of http.HTTPStatus.
HTTPStatusValues ==
    {100, 101, 102, 103} \cup (200..208) \cup {226} \cup (300..305) \cup {307, 308}
    \cup (400..418) \cup (421..426) \cup {428, 429, 431, 451}
    \cup (500..508) \cup {510, 511}

\* str(error): KeyError shows the repr of its argument, the others the argument.
ErrorText(error) ==
    IF error.kind = "KeyError" THEN <<"'">> \o error.text \o <<"'">> ELSE error.text

-----------------------------------------------------------------------------
(* check_tokens                                                            *)

check_tokens_any(t) == \E n \in TokenNames : Truthy(t[n])

\* all([TELEGRAM_TOKEN, PRACTICUM_TOKEN, TELEGRAM_CHAT_ID])
check_tokens(t) == \A n \in TokenNames : Truthy(t[n])

-----------------------------------------------------------------------------
(* send_message: outcome is what bot.send_message did, "ok" or the text of *)
(* the exception it raised.                                                *)

send_message(outcome, message) ==
    IF outcome = "ok" THEN Return("None")
    ELSE Raise("MessageNotSent", <<"Send error: ", outcome>>)

-----------------------------------------------------------------------------
(* get_api_answer: http is what requests.get did, a RequestException or a  *)
(* response with a status code and a body that decodes as JSON or not.     *)

get_api_answer(http) ==
    IF http.transport # "ok"
    THEN Raise("RequestError", <<"Error while requesting the API: ", http.transport>>)
    ELSE IF http.status_code \notin HTTPStatusValues
    THEN Raise("ValueError", <<ToString(http.status_code), " is not a valid HTTPStatus">>)
    ELSE IF http.status_code # HTTP_OK
    THEN Raise("RequestError",
               <<"Response status: ", ToString(http.status_code), " phrase. ",
                 "Full text: ", "body">>)
    ELSE IF ~http.decodable
    THEN Raise("UnexpectedResponseData", <<"Could not parse the response: ", "json error">>)
    ELSE Return(http.json)

-----------------------------------------------------------------------------
(* check_response                                                          *)

\* check_response without its last rule.
check_response_no_empty(response) ==
    IF response.type # "dict"
    THEN Raise("TypeError", <<"Response type is not dict">>)
    ELSE IF "homeworks" \notin DOMAIN response.d
    THEN Raise("KeyError", <<"Response has no key with the list of works">>)
    ELSE IF response.d["homeworks"].type # "list"
    THEN Raise("TypeError", <<"Type of the list of works is not list">>)
    ELSE Return("None")

check_response(response) ==
    IF response.type # "dict"
    THEN Raise("TypeError", <<"Response type is not dict">>)
    ELSE IF "homeworks" \notin DOMAIN response.d
    THEN Raise("KeyError", <<"Response has no key with the list of works">>)
    ELSE IF response.d["homeworks"].type # "list"
    THEN Raise("TypeError", <<"Type of the list of works is not list">>)
    ELSE IF response.d["homeworks"].l = <<>>
    THEN Raise("UnexpectedResponseData", <<"API returned an empty list of homeworks">>)
    ELSE Return("None")

-----------------------------------------------------------------------------
(* get_latest_homework                                                     *)

\* list.insert position of a stable descending sort: after every element
\* whose key is not smaller than x's key.
RECURSIVE InsertDesc(_, _)
InsertDesc(s, x) ==
    IF s = <<>> THEN <<x>>
    ELSE IF StrLess(Head(s)["date_updated"], x["date_updated"])
    THEN <<x>> \o s
    ELSE <<Head(s)>> \o InsertDesc(Tail(s), x)

RECURSIVE InsertAll(_, _)
InsertAll(acc, rest) ==
    IF rest = <<>> THEN acc ELSE InsertAll(InsertDesc(acc, Head(rest)), Tail(rest))

Reversed(s) == [i \in 1..Len(s) |-> s[Len(s) + 1 - i]]

\* sorted(...)[::-1] of an ascending stable sort: ties come out in reverse.
sorted_desc_unstable(homeworks) == InsertAll(<<>>, Reversed(homeworks))

\* sorted(homeworks, key=lambda homework: homework["date_updated"], reverse=True):
\* a new list, descending, equal keys in their original order.
sorted_desc(homeworks) == InsertAll(<<>>, homeworks)

\* Called on a dict whose "homeworks" is a list (check_response passed, or
\* the caller took that on itself).  sorted(...)[0] of an empty list raises
\* IndexError.
get_latest_homework(response) ==
    LET homeworks == response.d["homeworks"].l
    IN  IF \E i \in 1..Len(homeworks) : "date_updated" \notin DOMAIN homeworks[i]
        THEN Raise("KeyError", <<"Not every work has an update date">>)
        ELSE IF homeworks = <<>>
        THEN Raise("IndexError", <<"list index out of range">>)
        ELSE Return(sorted_desc(homeworks)[1])

\* list.sort in place of sorted: the caller's list comes back reordered.
homeworks_after_sort(response) == sorted_desc(response.d["homeworks"].l)

\* response["homeworks"] after get_latest_homework returned: sorted builds
\* a new list and the function assigns to nothing it was given.
homeworks_after(response) == response.d["homeworks"].l

-----------------------------------------------------------------------------
(* parse_status                                                            *)

parse_status(homework) ==
    IF "homework_name" \notin DOMAIN homework
    THEN Raise("KeyError", <<"The homework has no name">>)
    ELSE IF "status" \notin DOMAIN homework
    THEN Raise("KeyError", <<"The homework has no status">>)
    ELSE IF homework["status"] \notin DOMAIN HOMEWORK_VERDICTS
    THEN Raise("KeyError", <<"The homework has an unknown status">>)
    ELSE Return(<<"Review status changed for ", homework["homework_name"], ". ",
                  HOMEWORK_VERDICTS[homework["status"]]>>)

-----------------------------------------------------------------------------
(* main: the poll phase (try block and its handlers)                       *)

\* The first except clause without KeyError.
except_poll_no_key(error) ==
    IF error.kind \in {"UnexpectedResponseData", "RequestError", "TypeError"}
    THEN <<"Technical difficulties: ">> \o ErrorText(error)
    ELSE <<"Unknown failure: ">> \o ErrorText(error)

except_poll(error) ==
    IF error.kind \in {"UnexpectedResponseData", "RequestError", "TypeError", "KeyError"}
    THEN <<"Technical difficulties: ">> \o ErrorText(error)
    ELSE <<"Unknown failure: ">> \o ErrorText(error)

\* What the try block does: the text parse_status returned, or the first
\* exception raised on the way.
try_poll(http) ==
    LET response == get_api_answer(http)
    IN  IF ~response.ok THEN response
        ELSE LET checked == check_response(response.value)
             IN  IF ~checked.ok THEN checked
                 ELSE LET homework == get_latest_homework(response.value)
                      IN  IF ~homework.ok THEN homework
                          ELSE parse_status(homework.value)

\* current_status after the try statement, with what the history records
\* of the cycle: the class of the exception caught and the status code.
poll_phase(http) ==
    LET r == try_poll(http)
    IN  [status |-> IF r.ok THEN r.value ELSE except_poll(r),
         error  |-> IF r.ok THEN "none" ELSE r.kind,
         code   |-> http.status_code]

-----------------------------------------------------------------------------
(* main: the notify phase                                                  *)

should_send_always(cur, prev) == TRUE

\* the else branch of "if current_status == previous_status"
should_send(cur, prev) == cur # prev

\* A handler that logs the failure and leaves current_status alone.
except_send_keep(cur, error) == cur

except_send(cur, error) ==
    IF error.kind = "MessageNotSent"
    THEN <<"Could not send the message: ">> \o ErrorText(error)
    ELSE <<"Unknown failure: ">> \o ErrorText(error)

-----------------------------------------------------------------------------
(* Inputs.                                                                 *)

NoJson == [type |-> "none"]

Items(names, statuses, dates, keysets) ==
    { Restrict(f, K) :
        f \in [homework_name : names, status : statuses, date_updated : dates],
        K \in keysets }

ItemKeys == {"homework_name", "status", "date_updated"}

HomeworksResponse(l) == [type |-> "dict", d |-> [homeworks |-> [type |-> "list", l |-> l]]]

MalformedResponses ==
    { [type |-> "list", l |-> <<>>],
      [type |-> "dict", d |-> [homeworks |-> [type |-> "null"]]],
      [type |-> "dict", d |-> [code |-> [type |-> "str", s |-> "not_authenticated"]]],
      [type |-> "dict", d |-> [homeworks |-> [type |-> "str", s |-> "x"]]] }

LoopItems ==
    Items({"hw1"}, {"approved", "rejected", "cancelled"}, {<<1>>, <<2>>},
          {ItemKeys} \cup {ItemKeys \ {k} : k \in ItemKeys})

LoopResponses ==
    MalformedResponses \cup {HomeworksResponse(l) : l \in SeqsUpTo(LoopItems, MaxLoopLen)}

HttpOutcomes ==
    { [transport |-> "timeout", status_code |-> 0, decodable |-> FALSE, json |-> NoJson] }
    \cup { [transport |-> "ok", status_code |-> c, decodable |-> FALSE, json |-> NoJson] :
             c \in {200, 404, 500, 520} }
    \cup { [transport |-> "ok", status_code |-> 200, decodable |-> TRUE, json |-> j] :
             j \in LoopResponses }

SendOutcomes == {"ok", "chat not found"}

\* What a poll phase can leave behind, over every outcome of the request.
PollResults == {poll_phase(http) : http \in HttpOutcomes}

FnItems ==
    Items({"hw1", "hw2"}, {"approved"}, {<<1>>, <<1, 1>>, <<1, 2>>, <<2>>},
          {ItemKeys})
    \cup Items({"hw1"}, {"approved"}, {<<1>>}, {ItemKeys \ {"date_updated"}})

FnResponses ==
    MalformedResponses \cup {HomeworksResponse(l) : l \in SeqsUpTo(FnItems, MaxLen)}

-----------------------------------------------------------------------------
(* main                                                                    *)

Init ==
    /\ tokens \in [TokenNames -> EnvValues]
    /\ pc = "init"
    /\ previous_status = <<>>
    /\ current_status = <<>>
    /\ computed = <<>>
    /\ pollError = "none"
    /\ lastCode = 0
    /\ lastSend = "none"
    /\ prevSend = "none"
    /\ sameAsPrev = FALSE
    /\ lastDelivered = <<>>
    /\ sinceDiff = FALSE
    /\ redelivery = "none"
    /\ stableSince = FALSE
    /\ fnInput = NoJson
    /\ fnOutput = [fn |-> "none"]

histVars == <<computed, pollError, lastCode, lastSend, prevSend, sameAsPrev,
              lastDelivered, sinceDiff, redelivery, stableSince>>

\* lines 146-153: sys.exit on missing configuration, else previous_status = ""
Start ==
    /\ pc = "init"
    /\ IF ~check_tokens(tokens)
       THEN pc' = "aborted" /\ UNCHANGED previous_status
       ELSE pc' = "poll" /\ previous_status' = <<>>
    /\ UNCHANGED <<tokens, current_status, histVars, fnVars>>

\* lines 156-167
Poll ==
    /\ pc = "poll"
    /\ \E r \in PollResults :
          /\ current_status' = r.status
          /\ computed' = r.status
          /\ sameAsPrev' = (r.status = computed)
          /\ stableSince' = (stableSince /\ r.status = lastDelivered)
          /\ pollError' = r.error
          /\ lastCode' = r.code
    /\ prevSend' = lastSend
    /\ lastSend' = "none"
    /\ pc' = "notify"
    /\ UNCHANGED <<tokens, previous_status, lastDelivered, sinceDiff, redelivery, fnVars>>

\* lines 169-181
Notify ==
    /\ pc = "notify"
    /\ IF ~should_send(current_status, previous_status)
       THEN /\ lastSend' = "skip"
            /\ current_status' = current_status
            /\ UNCHANGED <<lastDelivered, sinceDiff, redelivery, stableSince>>
       ELSE \E outcome \in SendOutcomes :
              LET sent == send_message(outcome, current_status)
              IN  IF sent.ok
                  THEN /\ lastSend' = "ok"
                       /\ current_status' = current_status
                       /\ lastDelivered' = current_status
                       /\ sinceDiff' = FALSE
                       /\ stableSince' = TRUE
                       /\ redelivery' = IF current_status # lastDelivered THEN "new"
                                        ELSE IF sinceDiff THEN "after_other"
                                        ELSE "repeat"
                  ELSE /\ lastSend' = "fail"
                       /\ current_status' = except_send(current_status, sent)
                       /\ sinceDiff' = (sinceDiff \/ current_status # lastDelivered)
                       /\ UNCHANGED <<lastDelivered, redelivery, stableSince>>
    /\ previous_status' = current_status'
    /\ pc' = "sleep"
    /\ UNCHANGED <<tokens, computed, pollError, lastCode, prevSend, sameAsPrev, fnVars>>

\* line 182, and back to the head of the loop
Sleep ==
    /\ pc = "sleep"
    /\ pc' = "poll"
    /\ UNCHANGED <<tokens, previous_status, current_status, histVars, fnVars>>

Next == Start \/ Poll \/ Notify \/ Sleep

Spec == Init /\ [][Next]_vars

\* The interpreter runs main on: a step that can be taken is taken.
LiveSpec == Init /\ [][Next]_vars /\ WF_vars(Next)

-----------------------------------------------------------------------------
(* The validation and selection functions applied to decoded responses.    *)

IsHomeworksList(response) ==
    /\ response.type = "dict"
    /\ "homeworks" \in DOMAIN response.d
    /\ response.d["homeworks"].type = "list"

InitFn ==
    /\ tokens = [n \in TokenNames |-> [present |-> TRUE, value |-> "secret"]]
    /\ pc = "call"
    /\ previous_status = <<>>
    /\ current_status = <<>>
    /\ computed = <<>>
    /\ pollError = "none"
    /\ lastCode = 0
    /\ lastSend = "none"
    /\ prevSend = "none"
    /\ sameAsPrev = FALSE
    /\ lastDelivered = <<>>
    /\ sinceDiff = FALSE
    /\ redelivery = "none"
    /\ stableSince = FALSE
    /\ fnInput \in FnResponses
    /\ fnOutput = [fn |-> "none"]

CallCheckResponse ==
    /\ pc = "call"
    /\ pc' = "returned"
    /\ fnOutput' = [fn |-> "check_response", result |-> check_response(fnInput)]
    /\ UNCHANGED <<tokens, previous_status, current_status, histVars, fnInput>>

CallGetLatestHomework ==
    /\ pc = "call"
    /\ IsHomeworksList(fnInput)
    /\ pc' = "returned"
    /\ fnOutput' = [fn |-> "get_latest_homework",
                    result |-> get_latest_homework(fnInput),
                    after |-> homeworks_after(fnInput)]
    /\ UNCHANGED <<tokens, previous_status, current_status, histVars, fnInput>>

NextFn == CallCheckResponse \/ CallGetLatestHomework

FnSpec == InitFn /\ [][NextFn]_vars

-----------------------------------------------------------------------------
(* Properties.                                                             *)

Attempted(send) == send \in {"ok", "fail"}

TechnicalDifficulties(text) == text # <<>> /\ Head(text) = "Technical difficulties: "
UnknownFailure(text) == text # <<>> /\ Head(text) = "Unknown failure: "
FailedToSend(text) == text # <<>> /\ Head(text) = "Could not send the message: "

Missing(v) == ~v.present \/ v.value = ""

\* C1: in every cycle a send is attempted only if the text the cycle computed
\* differs from previous_status as the cycle found it; when they are equal the
\* cycle attempts no send.
C1_SendOnlyOnChange ==
    [][ /\ (pc = "notify" /\ Attempted(lastSend')) => current_status # previous_status
        /\ (pc = "notify" /\ current_status = previous_status) => lastSend' = "skip"
      ]_vars

\* a cycle that computed what the delivering cycle before it computed, and skipped
C1_Witness ==
    /\ pc = "sleep"
    /\ lastSend = "skip"
    /\ prevSend = "ok"
    /\ previous_status = computed

\* C2 as claimed: two consecutive cycles that compute the same text make exactly
\* one send between them, whatever previous_status was and however the send ends.
C2_ExactlyOneSend ==
    (pc = "sleep" /\ sameAsPrev) =>
        (Attempted(prevSend) /\ ~Attempted(lastSend)) \/ (~Attempted(prevSend) /\ Attempted(lastSend))

\* C2 amended: of two consecutive cycles that compute the same text, the second
\* sends nothing when the first delivered the text (one send in total) or
\* skipped it (previous_status was that text already: no send in total), and
\* attempts the send again when the first cycle's send failed.
C2_DedupAcrossCycles ==
    (pc = "sleep" /\ sameAsPrev) =>
        /\ prevSend = "ok" => lastSend = "skip"
        /\ prevSend = "skip" => lastSend = "skip"
        /\ prevSend = "fail" => Attempted(lastSend)
        /\ prevSend # "none"

C2_Witness ==
    /\ pc = "sleep"
    /\ sameAsPrev
    /\ prevSend = "ok"
    /\ lastSend = "skip"
    /\ pollError = "none"

\* C3: when send_message fails with MessageNotSent, current_status becomes the
\* "could not send" text, the cycle ends with previous_status set to it and no
\* other send, and main goes on to sleep and to poll again.
C3_SendFailure ==
    /\ [][ (pc = "notify" /\ lastSend' = "fail") =>
              /\ FailedToSend(current_status')
              /\ current_status' # current_status
              /\ previous_status' = current_status'
              /\ pc' = "sleep"
         ]_vars
    /\ [][ (pc = "sleep" /\ lastSend = "fail") =>
              /\ pc' = "poll"
              /\ lastSend' = "fail"
              /\ previous_status' = previous_status
         ]_vars
    /\ ((pc = "sleep" /\ lastSend = "fail") ~> (pc = "notify" /\ lastSend = "none"))

C3_Witness ==
    /\ pc = "notify"
    /\ prevSend = "fail"
    /\ FailedToSend(previous_status)
    /\ lastSend = "none"

C5_PollFailureContained ==
    /\ [][ pc = "poll" =>
              /\ pc' = "notify"
              /\ pollError' \in {"UnexpectedResponseData", "RequestError", "TypeError", "KeyError"}
                    => TechnicalDifficulties(current_status')
              /\ pollError' \notin {"none", "UnexpectedResponseData", "RequestError", "TypeError", "KeyError"}
                    => UnknownFailure(current_status')
         ]_vars
    /\ [][ (pc = "notify" /\ pollError # "none") =>
              /\ pc' = "sleep"
              /\ previous_status' = current_status'
              /\ ~Attempted(lastSend') => previous_status' = computed
         ]_vars

\* a cycle whose poll phase caught a KeyError, reported it and ended
C5_Witness ==
    /\ pc = "sleep"
    /\ pollError = "KeyError"
    /\ lastSend = "ok"
    /\ TechnicalDifficulties(previous_status)

\* C6: a response whose status code is not 200 makes get_api_answer raise
\* RequestError with the code in its text, so the cycle's status is the
\* "technical difficulties" text carrying that code.
C6_Non200IsRequestError ==
    (pc \in {"notify", "sleep"} /\ lastCode \notin {0, 200}) =>
        /\ pollError = "RequestError"
        /\ TechnicalDifficulties(computed)
        /\ \E i \in 1..Len(computed) : computed[i] = ToString(lastCode)

\* C7: for a non-empty list whose items all carry date_updated,
\* get_latest_homework returns the first item of the list among those whose
\* date_updated no other item's exceeds in string order, and the list is as it
\* was.
C7_LatestFirstAmongTies ==
    ( /\ fnOutput.fn = "get_latest_homework"
      /\ fnInput.d["homeworks"].l # <<>>
      /\ \A i \in 1..Len(fnInput.d["homeworks"].l) :
            "date_updated" \in DOMAIN fnInput.d["homeworks"].l[i] ) =>
        LET hs == fnInput.d["homeworks"].l
        IN  /\ fnOutput.result.ok
            /\ \E i \in 1..Len(hs) :
                  /\ fnOutput.result.value = hs[i]
                  /\ \A j \in 1..Len(hs) :
                        ~StrLess(hs[i]["date_updated"], hs[j]["date_updated"])
                  /\ \A j \in 1..(i - 1) :
                        StrLess(hs[j]["date_updated"], hs[i]["date_updated"])
            /\ fnOutput.after = hs

\* three items, the latest date shared by the second and the third
C7_Witness ==
    /\ fnOutput.fn = "get_latest_homework"
    /\ Len(fnInput.d["homeworks"].l) = 3
    /\ \A i \in 1..3 : "date_updated" \in DOMAIN fnInput.d["homeworks"].l[i]
    /\ fnInput.d["homeworks"].l[1]["date_updated"] = <<1>>
    /\ fnInput.d["homeworks"].l[2]["date_updated"] = <<1, 2>>
    /\ fnInput.d["homeworks"].l[3]["date_updated"] = <<1, 2>>
    /\ fnInput.d["homeworks"].l[2]["homework_name"] = "hw2"
    /\ fnInput.d["homeworks"].l[3]["homework_name"] = "hw1"
    /\ fnOutput.result.ok
    /\ fnOutput.result.value = fnInput.d["homeworks"].l[2]

\* C8: check_response reports the first rule broken, in the order: not a dict
\* (TypeError), no "homeworks" key (KeyError), "homeworks" not a list
\* (TypeError), an empty list (UnexpectedResponseData); it returns exactly for a
\* dict whose "homeworks" is a non-empty list.
C8_CheckResponseOrder ==
    fnOutput.fn = "check_response" =>
        LET r == fnOutput.result
        IN  IF fnInput.type # "dict" THEN ~r.ok /\ r.kind = "TypeError"
            ELSE IF "homeworks" \notin DOMAIN fnInput.d THEN ~r.ok /\ r.kind = "KeyError"
            ELSE IF fnInput.d["homeworks"].type # "list" THEN ~r.ok /\ r.kind = "TypeError"
            ELSE IF Len(fnInput.d["homeworks"].l) = 0
                 THEN ~r.ok /\ r.kind = "UnexpectedResponseData"
            ELSE r.ok

C8_Witness ==
    /\ fnOutput.fn = "check_response"
    /\ fnInput = HomeworksResponse(<<>>)
    /\ ~fnOutput.result.ok
    /\ fnOutput.result.kind = "UnexpectedResponseData"

\* C9 as claimed: a delivered notification never has the text of the delivered
\* notification before it.
C9_NoRepeatedDelivery == redelivery \notin {"repeat", "after_other"}

\* C9 amended: between two deliveries of the same text with no delivery in
\* between, a send of a different text was attempted (and failed).
C9_RepeatOnlyAfterOtherAttempt == redelivery # "repeat"

C9_Witness ==
    /\ redelivery = "after_other"
    /\ pc = "sleep"
    /\ lastSend = "ok"
    /\ lastDelivered = computed

\* C10: if from some cycle on every poll phase computes the same text and from
\* some point on no send fails, that text ends up delivered; and once a text
\* is delivered no send is attempted for as long as the polls keep computing it.
C10_RetryUntilDelivered ==
    /\ (<>[]sameAsPrev /\ <>[](lastSend # "fail")) => <>[](lastDelivered = computed)
    /\ [][ (pc = "notify" /\ stableSince) => lastSend' = "skip" ]_vars

\* a text whose send failed in one cycle and was delivered by the next
C10_Witness ==
    /\ pc = "sleep"
    /\ sameAsPrev
    /\ prevSend = "fail"
    /\ lastSend = "ok"
    /\ lastDelivered = computed

====
